---------------------------- MODULE Spec2Model ----------------------------
(***************************************************************************)
(* Monthly Bill Organizer API (src/main.py, src/schemas.py).               *)
(*                                                                         *)
(* The state is the two MongoDB collections the handlers use (budgetmonth  *)
(* and transaction), the request in flight with the locals of get_budget   *)
(* between its database calls, and the last response.  Each database call  *)
(* of a handler is one atomic step, so that other requests interleave      *)
(* between the calls of one get_budget exactly where the code allows it.   *)
(*                                                                         *)
(* Strings that the code parses or compares (the month key, stored ISO     *)
(* dates) are sequences of one-character strings.  Amounts are Python      *)
(* floats; the model draws integer-valued amounts, whose sums are exact,   *)
(* and computes the two true float divisions of the code (daily_limit and  *)
(* remaining_ratio) bit for bit as IEEE-754 doubles.                       *)
(***************************************************************************)
EXTENDS Integers, Sequences, FiniteSets, TLC

VARIABLES db, budgetmonth, transaction, req, resp, added, lastUpsert

vars == <<db, budgetmonth, transaction, req, resp, added, lastUpsert>>

(***************************************************************************)
(* Bounds of the model.                                                    *)
(***************************************************************************)
\* transactions the store machine inserts
MaxTx == 2
\* planned expenses in a plan drawn for the metrics machine
MaxPlanned == 2
\* transactions in the store drawn for the metrics machine
MaxStored == 2

(***************************************************************************)
(* Generic helpers.                                                        *)
(***************************************************************************)
Range(s) == {s[i] : i \in 1..Len(s)}

RECURSIVE SeqSum(_)
SeqSum(s) == IF s = <<>> THEN 0 ELSE s[1] + SeqSum(Tail(s))

Min2(a, b) == IF a <= b THEN a ELSE b
Max2(a, b) == IF a >= b THEN a ELSE b

\* Optional[T]: None is <<>>, a value v is <<v>>
None == <<>>
Some(v) == <<v>>

\* sequences over S of length at most n
SeqsUpTo(S, n) == UNION {[1..k -> S] : k \in 0..n}

(***************************************************************************)
(* Characters and strings.                                                 *)
(***************************************************************************)
Digits == <<"0", "1", "2", "3", "4", "5", "6", "7", "8", "9">>

IsDigit(c) == c \in Range(Digits)

DigitVal(c) == (CHOOSE i \in 1..10 : Digits[i] = c) - 1

DigitChar(n) == Digits[n + 1]

\* code point order of the characters that occur in stored dates
CharCode(c) == IF c = "-" THEN 45 ELSE 48 + DigitVal(c)

\* str <= str, as MongoDB and Python compare strings
RECURSIVE StrLeq(_, _)
StrLeq(a, b) ==
    IF a = <<>> THEN TRUE
    ELSE IF b = <<>> THEN FALSE
    ELSE IF a[1] = b[1] THEN StrLeq(Tail(a), Tail(b))
    ELSE CharCode(a[1]) < CharCode(b[1])

\* str.split("-")
RECURSIVE SplitDash(_, _)
SplitDash(s, cur) ==
    IF s = <<>> THEN <<cur>>
    ELSE IF s[1] = "-" THEN <<cur>> \o SplitDash(Tail(s), <<>>)
    ELSE SplitDash(Tail(s), Append(cur, s[1]))

\* int(part) succeeds: for the characters drawn here (digits, letters; the
\* dashes are gone after the split) exactly on a non-empty run of digits
IntParses(part) == part # <<>> /\ \A i \in 1..Len(part) : IsDigit(part[i])

RECURSIVE IntOf(_)
IntOf(part) ==
    IF part = <<>> THEN 0
    ELSE IntOf(SubSeq(part, 1, Len(part) - 1)) * 10 + DigitVal(part[Len(part)])

\* zero-padded decimal of n on w digits
RECURSIVE Pad(_, _)
Pad(n, w) == IF w = 0 THEN <<>> ELSE Append(Pad(n \div 10, w - 1), DigitChar(n % 10))

(***************************************************************************)
(* Calendar: datetime.date, calendar.monthrange.                           *)
(***************************************************************************)
Date(y, m, d) == [year |-> y, month |-> m, day |-> d]

IsLeap(y) == y % 4 = 0 /\ (y % 100 # 0 \/ y % 400 = 0)

\* monthrange(year, m)[1]
LastDay(y, m) ==
    IF m = 2 THEN (IF IsLeap(y) THEN 29 ELSE 28)
    ELSE IF m \in {4, 6, 9, 11} THEN 30 ELSE 31

RECURSIVE DaysBeforeMonth(_, _)
DaysBeforeMonth(y, m) ==
    IF m = 1 THEN 0 ELSE DaysBeforeMonth(y, m - 1) + LastDay(y, m - 1)

\* date.toordinal(); (a - b).days is ToOrdinal(a) - ToOrdinal(b)
ToOrdinal(dt) ==
    LET y1 == dt.year - 1
    IN  y1 * 365 + (y1 \div 4) - (y1 \div 100) + (y1 \div 400)
        + DaysBeforeMonth(dt.year, dt.month) + dt.day

\* date.isoformat()
IsoFormat(dt) == Pad(dt.year, 4) \o <<"-">> \o Pad(dt.month, 2) \o <<"-">> \o Pad(dt.day, 2)

(***************************************************************************)
(* IEEE-754 binary64 values.  [zero, neg, exp, frac] stands for            *)
(* (-1)^neg * 1.f * 2^exp, where the 52 fraction bits f are the four       *)
(* 13-bit limbs frac[1..4], most significant first; zero has zero = TRUE.  *)
(* The operators are the float operations of src/main.py on the values    *)
(* the model draws (integers and quotients of integers below 2^18),       *)
(* rounded to nearest, ties to even, as CPython's float is.                *)
(***************************************************************************)
Limb == 8192

FZero == [zero |-> TRUE, neg |-> FALSE, exp |-> 0, frac |-> <<0, 0, 0, 0>>]

Abs(r) == IF r < 0 THEN -r ELSE r

\* frac + 1 in the last place; <<>> when the fraction overflows
IncFrac(f) ==
    IF f[4] < Limb - 1 THEN <<f[1], f[2], f[3], f[4] + 1>>
    ELSE IF f[3] < Limb - 1 THEN <<f[1], f[2], f[3] + 1, 0>>
    ELSE IF f[2] < Limb - 1 THEN <<f[1], f[2] + 1, 0, 0>>
    ELSE IF f[1] < Limb - 1 THEN <<f[1] + 1, 0, 0, 0>>
    ELSE <<>>

\* frac - 1 in the last place; <<>> when the fraction is 0
DecFrac(f) ==
    IF f[4] > 0 THEN <<f[1], f[2], f[3], f[4] - 1>>
    ELSE IF f[3] > 0 THEN <<f[1], f[2], f[3] - 1, Limb - 1>>
    ELSE IF f[2] > 0 THEN <<f[1], f[2] - 1, Limb - 1, Limb - 1>>
    ELSE IF f[1] > 0 THEN <<f[1] - 1, Limb - 1, Limb - 1, Limb - 1>>
    ELSE <<>>

\* the float next above |x| (sign kept); zero stays zero
MagUp(x) ==
    IF x.zero THEN x
    ELSE IF IncFrac(x.frac) = <<>>
         THEN [x EXCEPT !.exp = x.exp + 1, !.frac = <<0, 0, 0, 0>>]
         ELSE [x EXCEPT !.frac = IncFrac(x.frac)]

\* the float next below |x| (sign kept); zero stays zero
MagDown(x) ==
    IF x.zero THEN x
    ELSE IF DecFrac(x.frac) = <<>>
         THEN [x EXCEPT !.exp = x.exp - 1,
                        !.frac = <<Limb - 1, Limb - 1, Limb - 1, Limb - 1>>]
         ELSE [x EXCEPT !.frac = DecFrac(x.frac)]

\* 1.frac * 2^exp truncated, rounded to nearest (ties to even) given the
\* first bit cut off (guard) and whether anything lies below it (below)
RoundNearestEven(neg, exp, frac, guard, below) ==
    LET x == [zero |-> FALSE, neg |-> neg, exp |-> exp, frac |-> frac]
    IN  IF guard /\ (below \/ frac[4] % 2 = 1) THEN MagUp(x) ELSE x

\* scale so that D <= N < 2 * D; e counts the doublings of D minus those of N
RECURSIVE Normalize(_, _, _)
Normalize(N, D, e) ==
    IF N < D THEN Normalize(2 * N, D, e - 1)
    ELSE IF N >= 2 * D THEN Normalize(N, 2 * D, e + 1)
    ELSE [N |-> N, D |-> D, e |-> e]

\* float(r) / d for integers r and d > 0: the correctly rounded quotient,
\* by long division, one limb of quotient bits at a time
FDiv(r, d) ==
    IF r = 0 THEN FZero
    ELSE LET nz == Normalize(Abs(r), d, 0)
             D  == nz.D
             r0 == nz.N - D
             r1 == (r0 * Limb) % D
             r2 == (r1 * Limb) % D
             r3 == (r2 * Limb) % D
             r4 == (r3 * Limb) % D
             g  == (r4 * Limb) \div D
         IN  RoundNearestEven(r < 0, nz.e,
                 <<(r0 * Limb) \div D, (r1 * Limb) \div D,
                   (r2 * Limb) \div D, (r3 * Limb) \div D>>,
                 g >= Limb \div 2,
                 g % (Limb \div 2) # 0 \/ (r4 * Limb) % D # 0)

\* float(r) for an integer r
FromInt(r) == FDiv(r, 1)

\* the largest s with 2^s <= n, for n >= 1
RECURSIVE Log2(_)
Log2(n) == IF n < 2 THEN 0 ELSE 1 + Log2(n \div 2)

RECURSIVE Pow2(_)
Pow2(s) == IF s = 0 THEN 1 ELSE 2 * Pow2(s - 1)

\* x * k for a float x and an integer k in 0..63: the exact product
\* (1.f) * k limb by limb, then shifted back to one leading bit and rounded
FMulInt(x, k) ==
    IF x.zero \/ k = 0 THEN FZero
    ELSE LET f  == x.frac
             t4 == f[4] * k
             t3 == f[3] * k + t4 \div Limb
             t2 == f[2] * k + t3 \div Limb
             t1 == f[1] * k + t2 \div Limb
             T  == k + t1 \div Limb
             s  == Log2(T)
             P  == Pow2(s)
             l1 == t1 % Limb
             l2 == t2 % Limb
             l3 == t3 % Limb
             l4 == t4 % Limb
             out == l4 % P
         IN  RoundNearestEven(x.neg, x.exp + s,
                 <<((T % P) * Limb + l1) \div P, ((l1 % P) * Limb + l2) \div P,
                   ((l2 % P) * Limb + l3) \div P, ((l3 % P) * Limb + l4) \div P>>,
                 s > 0 /\ 2 * out >= P,
                 s > 0 /\ (2 * out) % P # 0)

\* |a| < |b|
MagLess(a, b) ==
    IF b.zero THEN FALSE
    ELSE IF a.zero THEN TRUE
    ELSE IF a.exp # b.exp THEN a.exp < b.exp
    ELSE \E i \in 1..4 : /\ a.frac[i] < b.frac[i]
                         /\ \A j \in 1..(i - 1) : a.frac[j] = b.frac[j]

\* a <= b on floats
FLeq(a, b) ==
    IF a = b THEN TRUE
    ELSE IF ~a.zero /\ a.neg
         THEN (IF ~b.zero /\ b.neg THEN MagLess(b, a) ELSE TRUE)
         ELSE (IF ~b.zero /\ b.neg THEN FALSE ELSE MagLess(a, b))

\* the literal 0.1, i.e. 0x1.999999999999ap-4
Tenth == [zero |-> FALSE, neg |-> FALSE, exp |-> -4, frac |-> <<4915, 1638, 3276, 6554>>]

(***************************************************************************)
(* src/schemas.py: the request models and their validation.               *)
(***************************************************************************)
\* PlannedExpense: amount >= 0, due_day None or in 1..31
PlannedExpense(e) ==
    /\ e.amount >= 0
    /\ (e.due_day = None \/ (e.due_day[1] >= 1 /\ e.due_day[1] <= 31))

\* Field(pattern=r"^\d{4}-\d{2}$")
MonthPattern(v) ==
    /\ Len(v) = 7
    /\ \A i \in {1, 2, 3, 4, 6, 7} : IsDigit(v[i])
    /\ v[5] = "-"

\* BudgetMonth.valid_month, run on a value that matched the pattern
valid_month(v) ==
    LET parts == SplitDash(v, <<>>)
    IN  IntOf(parts[2]) >= 1 /\ IntOf(parts[2]) <= 12

\* BudgetMonth: what pydantic accepts as the body of upsert_budget
BudgetMonth(p) ==
    /\ MonthPattern(p.month)
    /\ valid_month(p.month)
    /\ p.income >= 0
    /\ \A i \in 1..Len(p.planned_expenses) : PlannedExpense(p.planned_expenses[i])

\* Transaction: amount > 0
Transaction(tx) == tx.amount > 0

(***************************************************************************)
(* src/main.py: helpers.                                                   *)
(***************************************************************************)
\* year, m = map(int, month.split("-")) does not raise
MonthUnpacks(month) ==
    LET parts == SplitDash(month, <<>>)
    IN  Len(parts) = 2 /\ IntParses(parts[1]) /\ IntParses(parts[2])

MonthYear(month) == IntOf(SplitDash(month, <<>>)[1])
MonthNum(month) == IntOf(SplitDash(month, <<>>)[2])

\* start_end_for_month raises ValueError: the unpacking fails, or
\* datetime(year, m, 1) rejects the year or the month
ValueError(month) ==
    \/ ~MonthUnpacks(month)
    \/ MonthYear(month) < 1 \/ MonthYear(month) > 9999
    \/ MonthNum(month) < 1 \/ MonthNum(month) > 12

\* start_end_for_month(month), for a month on which it does not raise; only
\* .date() of either bound is ever used
start_end_for_month(month) ==
    LET y == MonthYear(month)
        m == MonthNum(month)
    IN  [start |-> Date(y, m, 1), end |-> Date(y, m, LastDay(y, m))]

\* the query with "$lt" for "$lte": a fault the month scoping of actual_spent
\* must expose, the last day of the month dropping out
FindTransactions_lt(coll, month) ==
    LET bounds == start_end_for_month(month)
        gte    == IsoFormat(bounds.start)
        lte    == IsoFormat(bounds.end)
    IN  SelectSeq(coll, LAMBDA t : StrLeq(gte, t.date) /\ StrLeq(t.date, lte) /\ t.date # lte)

\* db["transaction"].find({"date": {"$gte": start.date().isoformat(),
\* "$lte": end.date().isoformat()}}): the documents whose stored string is
\* between the two strings, in insertion order
FindTransactions(coll, month) ==
    LET bounds == start_end_for_month(month)
        gte    == IsoFormat(bounds.start)
        lte    == IsoFormat(bounds.end)
    IN  SelectSeq(coll, LAMBDA t : StrLeq(gte, t.date) /\ StrLeq(t.date, lte))

\* db["budgetmonth"].find_one({"month": month}): None or the first match
find_one(coll, month) ==
    LET hits == {i \in 1..Len(coll) : coll[i].month = month}
    IN  IF hits = {} THEN None
        ELSE Some(coll[CHOOSE i \in hits : \A j \in hits : i <= j])

\* payload.model_dump()
model_dump(payload) ==
    [month |-> payload.month, income |-> payload.income,
     notes |-> payload.notes, planned_expenses |-> payload.planned_expenses]

\* {"$set": fields} applied to a document: the named fields are replaced,
\* every other field of the document stays
SetFields(doc, fields) ==
    [k \in DOMAIN doc \union DOMAIN fields |->
        IF k \in DOMAIN fields THEN fields[k] ELSE doc[k]]

\* insert_one for the upsert: a fault the one-document-per-month invariant
\* must expose
update_one_insert(coll, month, fields) ==
    Append(coll, SetFields([_id |-> Len(coll) + 1, month |-> month], fields))

\* update_one({"month": month}, {"$set": fields}, upsert=True): the first
\* match is updated in place; without a match one document is inserted,
\* made of the filter's month, the fields and a fresh _id
update_one(coll, month, fields) ==
    LET hits == {i \in 1..Len(coll) : coll[i].month = month}
    IN  IF hits = {}
        THEN Append(coll, SetFields([_id |-> Len(coll) + 1, month |-> month], fields))
        ELSE LET first == CHOOSE i \in hits : \A j \in hits : i <= j
             IN  [coll EXCEPT ![first] = SetFields(@, fields)]

\* a dict as the sequence of its items in insertion order
DictHas(d, k) == \E i \in 1..Len(d) : d[i].key = k

\* d.get(k, default)
DictGet(d, k, default) ==
    IF DictHas(d, k) THEN d[CHOOSE i \in 1..Len(d) : d[i].key = k].val ELSE default

\* d[k] = d.get(k, 0.0) + v
DictAdd(d, k, v) ==
    IF DictHas(d, k)
    THEN [i \in 1..Len(d) |-> IF d[i].key = k THEN [key |-> k, val |-> d[i].val + v] ELSE d[i]]
    ELSE Append(d, [key |-> k, val |-> v])

\* the loops of lines 104-105 and 111-113: sum the amounts by category
RECURSIVE ByCategory(_, _)
ByCategory(items, acc) ==
    IF items = <<>> THEN acc
    ELSE ByCategory(Tail(items), DictAdd(acc, items[1].category, items[1].amount))

\* sum(float(x.get("amount", 0)) for x in items)
RECURSIVE SumAmounts(_)
SumAmounts(items) ==
    IF items = <<>> THEN 0 ELSE items[1].amount + SumAmounts(Tail(items))

\* docs.sort("date", 1): ascending by the stored string, stable
RECURSIVE InsertByDate(_, _)
InsertByDate(sorted, t) ==
    IF sorted = <<>> THEN <<t>>
    ELSE IF StrLeq(sorted[Len(sorted)].date, t.date) THEN Append(sorted, t)
    ELSE Append(InsertByDate(SubSeq(sorted, 1, Len(sorted) - 1), t), sorted[Len(sorted)])

RECURSIVE SortByDate(_)
SortByDate(docs) ==
    IF docs = <<>> THEN <<>>
    ELSE InsertByDate(SortByDate(SubSeq(docs, 1, Len(docs) - 1)), docs[Len(docs)])

(***************************************************************************)
(* src/main.py: get_budget, lines 68-129.                                  *)
(***************************************************************************)
\* days_left without the "+ 1" of line 98: a fault the days_left rule must
\* expose
days_left_exclusive(month, today) ==
    LET y          == MonthYear(month)
        m          == MonthNum(month)
        last_date  == ToOrdinal(Date(y, m, LastDay(y, m)))
        first_date == ToOrdinal(Date(y, m, 1))
    IN  IF ToOrdinal(today) < first_date THEN (last_date - first_date) + 1
        ELSE IF ToOrdinal(today) > last_date THEN 0
        ELSE last_date - ToOrdinal(today)

\* lines 87-98
days_left(month, today) ==
    LET y          == MonthYear(month)
        m          == MonthNum(month)
        last_date  == ToOrdinal(Date(y, m, LastDay(y, m)))
        first_date == ToOrdinal(Date(y, m, 1))
    IN  IF ToOrdinal(today) < first_date THEN (last_date - first_date) + 1
        ELSE IF ToOrdinal(today) > last_date THEN 0
        ELSE (last_date - ToOrdinal(today)) + 1

\* line 100
daily_limit(remaining_actual, days) ==
    IF days > 0 THEN FDiv(remaining_actual, days) ELSE FZero

\* line 101
weekly_limit(daily) == FMulInt(daily, 7)

\* the "metrics" object of lines 117-128, from the locals of the request
\* and the second read of the month's transactions
Metrics(r, actual_by_cat) ==
    [income |-> r.income,
     planned_total |-> r.planned_total,
     remaining_planned |-> Max2(r.income - r.planned_total, 0),
     actual_spent |-> r.actual_total,
     remaining_actual |-> r.remaining_actual,
     days_left |-> r.days_left,
     daily_limit |-> r.daily_limit,
     weekly_limit |-> r.weekly_limit,
     planned_by_category |-> r.planned_by_cat,
     actual_by_category |-> actual_by_cat]

\* what a call of get_budget ends with: an HTTPException (status, detail)
\* or the returned object (status 200)
Raise(status, detail) == [status |-> status, result |-> detail]
Return(result) == [status |-> 200, result |-> result]

(***************************************************************************)
(* src/main.py: month_summary, lines 156-177.                              *)
(***************************************************************************)
\* metrics.get(key, default)
MetricsGet(metrics, key, default) ==
    IF key \in DOMAIN metrics THEN metrics[key] ELSE default

\* month_summary without its except clause, the 404 of get_budget
\* propagating: a fault the no-plan rule must expose
month_summary_reraises(month, outcome) ==
    IF outcome.status # 200 THEN outcome ELSE Return(outcome.result.metrics)

\* the handler, given what its call of get_budget ended with
month_summary(month, outcome) ==
    IF outcome.status # 200 /\ outcome.status # 404 THEN outcome
    ELSE LET budget  == IF outcome.status = 404
                        THEN [plan |-> None, metrics |-> <<>>]
                        ELSE outcome.result
             metrics == budget.metrics
         IN  Return([month |-> month,
                     income |-> MetricsGet(metrics, "income", 0),
                     planned_total |-> MetricsGet(metrics, "planned_total", 0),
                     actual_spent |-> MetricsGet(metrics, "actual_spent", 0),
                     remaining_actual |-> MetricsGet(metrics, "remaining_actual", 0),
                     daily_limit |-> MetricsGet(metrics, "daily_limit", FZero),
                     weekly_limit |-> MetricsGet(metrics, "weekly_limit", FZero),
                     planned_by_category |-> MetricsGet(metrics, "planned_by_category", <<>>),
                     actual_by_category |-> MetricsGet(metrics, "actual_by_category", <<>>)])

(***************************************************************************)
(* src/main.py: get_alerts, lines 180-240.                                 *)
(***************************************************************************)
Alert(month, type, message, level) ==
    [month |-> month, type |-> type, message |-> message, level |-> level]

\* a formatted message: the f-string and the values it interpolates
Message(text, subject, n1, n2) ==
    [text |-> text, subject |-> subject, n1 |-> n1, n2 |-> n2]

\* "<" for "<=" at line 206: a fault the overspend level rule must expose
overspend_level_strict(actual_amt, planned_amt) ==
    IF 4 * actual_amt < 5 * planned_amt THEN "warning" ELSE "danger"

\* line 206; planned_amt * 1.25 is exact for the integer amounts drawn
overspend_level(actual_amt, planned_amt) ==
    IF 4 * actual_amt <= 5 * planned_amt THEN "warning" ELSE "danger"

\* lines 199-207, over the items of planned_by_category in dict order
RECURSIVE overspend_alerts(_, _, _)
overspend_alerts(month, planned_items, actual_by_category) ==
    IF planned_items = <<>> THEN <<>>
    ELSE LET cat         == planned_items[1].key
             planned_amt == planned_items[1].val
             actual_amt  == DictGet(actual_by_category, cat, 0)
         IN  (IF actual_amt > planned_amt /\ planned_amt > 0
              THEN <<Alert(month, "overspend",
                           Message("Spending in {cat} is over plan (planned {:.2f}, actual {:.2f}).",
                                   cat, planned_amt, actual_amt),
                           overspend_level(actual_amt, planned_amt))>>
              ELSE <<>>)
             \o overspend_alerts(month, Tail(planned_items), actual_by_category)

\* "<" for "<=" at line 213: a fault the low_budget rule must expose
low_budget_alerts_below(month, remaining, income) ==
    IF income > 0 /\ ~FLeq(Tenth, FDiv(remaining, income))
    THEN <<Alert(month, "low_budget",
                 Message("Remaining monthly budget is below 10% of income.", "", 0, 0),
                 IF remaining > 0 THEN "warning" ELSE "danger")>>
    ELSE <<>>

\* lines 209-219
low_budget_alerts(month, remaining, income) ==
    IF income > 0 /\ FLeq(FDiv(remaining, income), Tenth)
    THEN <<Alert(month, "low_budget",
                 Message("Remaining monthly budget is below 10% of income.", "", 0, 0),
                 IF remaining > 0 THEN "warning" ELSE "danger")>>
    ELSE <<>>

\* line 227: not due_day
Falsy(due_day) == due_day = None \/ due_day[1] = 0

\* the due date without the clamp to the month's last day (date arithmetic
\* running on into the next month): a fault the due_soon rule must expose
days_until_unclamped(month, due_day, today) ==
    ToOrdinal(Date(MonthYear(month), MonthNum(month), Max2(due_day[1], 1)))
        - ToOrdinal(today)

\* lines 229-231
days_until(month, due_day, today) ==
    LET year     == MonthYear(month)
        m        == MonthNum(month)
        last_day == LastDay(year, m)
        clamped  == Min2(Max2(due_day[1], 1), last_day)
    IN  ToOrdinal(Date(year, m, clamped)) - ToOrdinal(today)

\* lines 225-238, over plan["planned_expenses"] in order
RECURSIVE due_soon_alerts(_, _, _)
due_soon_alerts(month, expenses, today) ==
    IF expenses = <<>> THEN <<>>
    ELSE LET p == expenses[1]
             n == days_until(month, p.due_day, today)
         IN  (IF ~Falsy(p.due_day) /\ 0 <= n /\ n <= 5
              THEN <<Alert(month, "due_soon",
                           Message("{name} is due in {days_until} day(s).", p.name, n, 0),
                           IF n >= 3 THEN "info" ELSE "warning")>>
              ELSE <<>>)
             \o due_soon_alerts(month, Tail(expenses), today)

\* the low_budget block run first: a fault the order rule must expose
alerts_low_budget_first(overspend, low_budget, due_soon) ==
    low_budget \o overspend \o due_soon

\* the list alerts after the appends of the three blocks, which run in
\* this order (lines 199, 211, 221)
alerts(overspend, low_budget, due_soon) == overspend \o low_budget \o due_soon

\* the handler, given what its call of get_budget ended with and the date
\* datetime.utcnow() gives at line 222 (not read when get_budget raised)
get_alerts(month, outcome, today) ==
    IF outcome.status = 404 THEN Return(<<>>)
    ELSE IF outcome.status # 200 THEN outcome
    ELSE LET plan    == outcome.result.plan
             metrics == outcome.result.metrics
         IN  Return(alerts(overspend_alerts(month, metrics.planned_by_category,
                                            metrics.actual_by_category),
                           low_budget_alerts(month, metrics.remaining_actual, metrics.income),
                           IF plan.planned_expenses # <<>>
                           THEN due_soon_alerts(month, plan.planned_expenses, today)
                           ELSE <<>>))

(***************************************************************************)
(* Requests and responses.                                                 *)
(***************************************************************************)
\* no read request is between two database calls
Idle == [pc |-> "idle"]

\* no response is waiting to be sent
NoResp == [op |-> "none"]

\* a response, with the dates the handler read from the clock: at line 87
\* (today) and at line 222 (today_alerts), None where it did not read it
Response(op, month, outcome, today, today_alerts) ==
    [op |-> op, month |-> month, status |-> outcome.status, body |-> outcome.result,
     today |-> today, today_alerts |-> today_alerts]

NoClock(op, month, outcome) == Response(op, month, outcome, None, None)

\* the response of the endpoint op whose call of get_budget ended with
\* outcome: the route itself, or the wrapper's handling of it
Reply(op, month, outcome, today, today_alerts) ==
    IF op = "month_summary"
    THEN Response(op, month, month_summary(month, outcome), today, None)
    ELSE IF op = "get_alerts"
    THEN Response(op, month, get_alerts(month, outcome, today_alerts[1]), today, today_alerts)
    ELSE Response(op, month, outcome, today, None)

(***************************************************************************)
(* The inputs the requests are drawn from.                                 *)
(***************************************************************************)
M_2024_02 == <<"2", "0", "2", "4", "-", "0", "2">>
M_2023_04 == <<"2", "0", "2", "3", "-", "0", "4">>
\* malformed: month part 13; month part of one digit; no digits at all
M_2024_13 == <<"2", "0", "2", "4", "-", "1", "3">>
M_2024_2  == <<"2", "0", "2", "4", "-", "2">>
M_abc     == <<"a", "b", "c">>

\* the months a plan can be stored under
StoreMonths == {M_2024_02, M_2023_04}
\* the month parameters of the requests
RequestMonths == StoreMonths \union {M_2024_13, M_2024_2, M_abc}

Expense(name, category, amount, due_day) ==
    [name |-> name, category |-> category, amount |-> amount,
     due_day |-> due_day, recurring |-> TRUE]

Rent == Expense("Rent", "rent", 4, Some(28))
Gym  == Expense("Gym", "rent", 4, Some(31))
Food == Expense("Food", "food", 0, None)

Plan(month, income, notes, planned_expenses) ==
    [month |-> month, income |-> income, notes |-> notes,
     planned_expenses |-> planned_expenses]

\* bodies of upsert_budget for the store machine; the last one fails the
\* validation of BudgetMonth
StorePayloads ==
    {Plan(M_2024_02, 20, Some("salary"), <<Rent>>), Plan(M_2024_02, 0, None, <<>>),
     Plan(M_2023_04, 20, None, <<Gym>>), Plan(M_2024_13, 20, None, <<>>)}

Tx(amount, category, tx_date) ==
    [amount |-> amount, category |-> category, label |-> None, tx_date |-> tx_date]

\* bodies of add_transaction for the store machine: around both ends of
\* February 2024; the last one fails the validation of Transaction
StoreTxs ==
    {Tx(5, "rent", d) : d \in {Date(2024, 1, 31), Date(2024, 2, 1),
                               Date(2024, 2, 29), Date(2024, 3, 1)}}
    \union {Tx(0, "rent", Date(2024, 2, 1))}

\* what datetime.utcnow().date() gives in the store machine
StoreDays == {Date(2024, 2, 15), Date(2024, 3, 1)}

\* the plans, stored transactions and days of the metrics machine
MetricExpenses == {Rent, Gym, Food}
MetricPlans ==
    {Plan(M_2024_02, income, None, es) :
        income \in {0, 20}, es \in SeqsUpTo(MetricExpenses, MaxPlanned)}
MetricTxs ==
    <<Tx(5, "rent", Date(2024, 2, 10)), Tx(13, "rent", Date(2024, 2, 10)),
      Tx(5, "food", Date(2024, 2, 10))>>
\* one insertion order for each bag of at most MaxStored of them
MetricStores ==
    {[i \in DOMAIN ix |-> MetricTxs[ix[i]]] :
        ix \in {jx \in SeqsUpTo(1..Len(MetricTxs), MaxStored) :
                   \A i \in 1..(Len(jx) - 1) : jx[i] <= jx[i + 1]}}
MetricDays ==
    {Date(2024, 1, 31), Date(2024, 2, 1), Date(2024, 2, 23), Date(2024, 2, 24),
     Date(2024, 2, 26), Date(2024, 2, 29), Date(2024, 3, 1)}

(***************************************************************************)
(* The handlers as actions.  A response waits in resp until it is sent;    *)
(* nothing else runs meanwhile, so resp is read against the store as the   *)
(* handler left it.                                                        *)
(***************************************************************************)
\* lines 136-139: the stored document of a transaction
TransactionDoc(coll, tx) ==
    [_id |-> Len(coll) + 1, amount |-> tx.amount, category |-> tx.category,
     label |-> tx.label, tx_date |-> tx.tx_date, date |-> IsoFormat(tx.tx_date)]

\* db["transaction"].insert_one(data)
insert_one(coll, tx) == Append(coll, TransactionDoc(coll, tx))

\* POST /api/budget/{month}, lines 56-65
upsert_budget(month, payload) ==
    /\ resp = NoResp
    /\ IF ~BudgetMonth(payload)
       THEN /\ resp' = NoClock("upsert_budget", month, Raise(422, "validation"))
            /\ UNCHANGED <<budgetmonth, lastUpsert>>
       ELSE IF payload.month # month
       THEN /\ resp' = NoClock("upsert_budget", month,
                                Raise(400, "Path month and payload month must match"))
            /\ UNCHANGED <<budgetmonth, lastUpsert>>
       ELSE IF ~db
       THEN /\ resp' = NoClock("upsert_budget", month, Raise(500, "Database not available"))
            /\ UNCHANGED <<budgetmonth, lastUpsert>>
       ELSE /\ budgetmonth' = update_one(budgetmonth, month, model_dump(payload))
            /\ resp' = NoClock("upsert_budget", month,
                                Return([ok |-> TRUE, budget |-> find_one(budgetmonth', month)]))
            /\ lastUpsert' = [lastUpsert EXCEPT ![month] = Some(payload)]
    /\ UNCHANGED <<db, transaction, req, added>>

\* POST /api/transactions, lines 132-140
add_transaction(tx) ==
    /\ resp = NoResp
    /\ IF ~Transaction(tx)
       THEN /\ resp' = NoClock("add_transaction", None, Raise(422, "validation"))
            /\ UNCHANGED <<transaction, added>>
       ELSE IF ~db
       THEN /\ resp' = NoClock("add_transaction", None, Raise(500, "Database not available"))
            /\ UNCHANGED <<transaction, added>>
       ELSE /\ Len(transaction) < MaxTx
            /\ transaction' = insert_one(transaction, tx)
            /\ added' = Append(added, tx)
            /\ resp' = NoClock("add_transaction", None, Return([ok |-> TRUE]))
    /\ UNCHANGED <<db, budgetmonth, req, lastUpsert>>

\* GET /api/transactions, lines 143-153; month is None or Some(string)
list_transactions(month) ==
    /\ resp = NoResp
    /\ resp' = NoClock("list_transactions", month,
          IF ~db THEN Raise(500, "Database not available")
          ELSE IF month = None \/ month[1] = <<>>
               THEN Return(SortByDate(transaction))
          ELSE IF ValueError(month[1]) THEN Raise(500, "ValueError")
          ELSE Return(SortByDate(FindTransactions(transaction, month[1]))))
    /\ UNCHANGED <<db, budgetmonth, transaction, req, added, lastUpsert>>

\* get_budget up to its first query of the transactions (lines 70-79), for
\* the route itself (op = "get_budget") or called by month_summary or
\* get_alerts
get_budget_plan(op, month) ==
    /\ resp = NoResp
    /\ req = Idle
    /\ IF ~db
       THEN /\ resp' = Reply(op, month, Raise(500, "Database not available"), None, None)
            /\ req' = req
       ELSE IF find_one(budgetmonth, month) = None
       THEN /\ resp' = Reply(op, month, Raise(404, "No plan for this month"), None, None)
            /\ req' = req
       ELSE IF ValueError(month)
       THEN /\ resp' = Reply(op, month, Raise(500, "ValueError"), None, None)
            /\ req' = req
       ELSE /\ req' = [pc |-> "actual_total", op |-> op, month |-> month,
                       plan |-> find_one(budgetmonth, month)[1],
                       income |-> find_one(budgetmonth, month)[1].income,
                       planned_total |->
                           SumAmounts(find_one(budgetmonth, month)[1].planned_expenses)]
            /\ resp' = resp
    /\ UNCHANGED <<db, budgetmonth, transaction, added, lastUpsert>>

\* get_budget from its first query of the transactions up to the second
\* (lines 80-105); today is datetime.utcnow().date() of line 87
get_budget_actual_total(today) ==
    /\ resp = NoResp
    /\ req.pc = "actual_total"
    /\ LET actual_total     == SumAmounts(FindTransactions(transaction, req.month))
           remaining_actual == req.income - actual_total
           days             == days_left(req.month, today)
           daily            == daily_limit(remaining_actual, days)
       IN  req' = [pc |-> "by_category", op |-> req.op, month |-> req.month,
                   plan |-> req.plan, income |-> req.income,
                   planned_total |-> req.planned_total,
                   actual_total |-> actual_total,
                   remaining_actual |-> remaining_actual,
                   today |-> today,
                   days_left |-> days,
                   daily_limit |-> daily,
                   weekly_limit |-> weekly_limit(daily),
                   planned_by_cat |-> ByCategory(req.plan.planned_expenses, <<>>)]
    /\ UNCHANGED <<db, budgetmonth, transaction, resp, added, lastUpsert>>

\* get_budget from its second query of the transactions to its return
\* (lines 107-129), as the route or called by month_summary
get_budget_by_category ==
    /\ resp = NoResp
    /\ req.pc = "by_category"
    /\ req.op # "get_alerts"
    /\ resp' = Reply(req.op, req.month,
                     Return([plan |-> req.plan,
                             metrics |-> Metrics(req,
                                 ByCategory(FindTransactions(transaction, req.month), <<>>))]),
                     Some(req.today), None)
    /\ req' = Idle
    /\ UNCHANGED <<db, budgetmonth, transaction, added, lastUpsert>>

\* the same called by get_alerts, and the rest of get_alerts (lines
\* 194-240); today is datetime.utcnow().date() of line 222, not before that
\* of line 87
get_alerts_by_category(today) ==
    /\ resp = NoResp
    /\ req.pc = "by_category"
    /\ req.op = "get_alerts"
    /\ ToOrdinal(today) >= ToOrdinal(req.today)
    /\ resp' = Reply(req.op, req.month,
                     Return([plan |-> req.plan,
                             metrics |-> Metrics(req,
                                 ByCategory(FindTransactions(transaction, req.month), <<>>))]),
                     Some(req.today), Some(today))
    /\ req' = Idle
    /\ UNCHANGED <<db, budgetmonth, transaction, added, lastUpsert>>

\* the response is sent
send_response ==
    /\ resp # NoResp
    /\ resp' = NoResp
    /\ UNCHANGED <<db, budgetmonth, transaction, req, added, lastUpsert>>

(***************************************************************************)
(* The store machine: every endpoint, from empty collections.  db is the   *)
(* module global of database: a handle, or None when no database is        *)
(* configured.                                                             *)
(***************************************************************************)
Init ==
    /\ db \in BOOLEAN
    /\ budgetmonth = <<>>
    /\ transaction = <<>>
    /\ req = Idle
    /\ resp = NoResp
    /\ added = <<>>
    /\ lastUpsert = [m \in StoreMonths |-> None]

Next ==
    \/ \E month \in StoreMonths, payload \in StorePayloads :
          upsert_budget(month, payload)
    \/ \E tx \in StoreTxs : add_transaction(tx)
    \/ \E month \in {None} \union {Some(m) : m \in RequestMonths \ {M_2023_04}} :
          list_transactions(month)
    \/ \E op \in {"get_budget", "month_summary", "get_alerts"},
          month \in StoreMonths \union {M_2024_13} :
          get_budget_plan(op, month)
    \/ \E today \in StoreDays : get_budget_actual_total(today)
    \/ get_budget_by_category
    \/ \E today \in StoreDays : get_alerts_by_category(today)
    \/ send_response

Spec == Init /\ [][Next]_vars

(***************************************************************************)
(* The metrics machine: get_budget and get_alerts on a store that holds    *)
(* one plan for February 2024 and some transactions of that month.         *)
(***************************************************************************)
InitMetrics ==
    /\ db = TRUE
    /\ \E plan \in MetricPlans :
          /\ budgetmonth = update_one(<<>>, plan.month, model_dump(plan))
          /\ lastUpsert = [m \in StoreMonths |-> IF m = plan.month THEN Some(plan) ELSE None]
    /\ \E txs \in MetricStores :
          /\ added = txs
          /\ transaction = [i \in DOMAIN txs |-> TransactionDoc(SubSeq(txs, 1, i - 1), txs[i])]
    /\ req = Idle
    /\ resp = NoResp

NextMetrics ==
    \/ \E op \in {"get_budget", "get_alerts"} : get_budget_plan(op, M_2024_02)
    \/ \E today \in MetricDays : get_budget_actual_total(today)
    \/ get_budget_by_category
    \/ \E today \in MetricDays : get_alerts_by_category(today)
    \/ send_response

SpecMetrics == InitMetrics /\ [][NextMetrics]_vars

(***************************************************************************)
(* Properties.  A response is judged while it waits in resp: no other      *)
(* request has run since the handler produced it, so the collections are   *)
(* as the handler left them.                                               *)
(***************************************************************************)
\* the endpoint op has answered normally
Answered(op) == resp.op = op /\ resp.status = 200

ReadOps == {"get_budget", "month_summary", "get_alerts"}

\* the stored plans of month m, by position
DocsOf(m) == {i \in 1..Len(budgetmonth) : budgetmonth[i].month = m}

\* the stored plan the response is about
AnsweredPlan == budgetmonth[CHOOSE i \in DocsOf(resp.month) : TRUE]

\* the amounts of the items of category c, summed
CategoryTotal(items, c) ==
    SeqSum([i \in 1..Len(items) |-> IF items[i].category = c THEN items[i].amount ELSE 0])

\* the amounts of the transactions dated in the month, by the calendar
InMonthTotal(txs, month) ==
    SeqSum([i \in 1..Len(txs) |->
               IF /\ txs[i].tx_date.year = MonthYear(month)
                  /\ txs[i].tx_date.month = MonthNum(month)
               THEN txs[i].amount ELSE 0])

\* the day of the year 2024 (a leap year), counted without ToOrdinal
DayOf2024(d) ==
    <<0, 31, 60, 91, 121, 152, 182, 213, 244, 274, 305, 335>>[d.month] + d.day

\* the alerts of one type in a response of get_alerts, in order
AlertsOfType(type) == SelectSeq(resp.body, LAMBDA a : a.type = type)

(***************************************************************************)
(* C4.  In the metrics machine, where nothing is written between the reads *)
(* of a request, planned_by_category[c] and actual_by_category[c] are the  *)
(* totals of the stored plan's expenses and of the stored transactions of  *)
(* category c.                                                             *)
(***************************************************************************)
PlannedCategories == {AnsweredPlan.planned_expenses[i].category :
                         i \in 1..Len(AnsweredPlan.planned_expenses)}

SpentCategories == {transaction[i].category : i \in 1..Len(transaction)}

OverspendFor(c) ==
    {i \in 1..Len(resp.body) :
        resp.body[i].type = "overspend" /\ resp.body[i].message.subject = c}

\* C4: get_alerts answers with exactly one overspend alert for each planned
\* category whose actual total exceeds a planned total above 0, with level
\* warning when actual <= 1.25 * planned and danger otherwise, and with no
\* overspend alert for any other category
C4_Overspend ==
    Answered("get_alerts") =>
        \A c \in PlannedCategories \union SpentCategories :
            LET planned == CategoryTotal(AnsweredPlan.planned_expenses, c)
                actual  == CategoryTotal(transaction, c)
            IN  IF c \in PlannedCategories /\ actual > planned /\ planned > 0
                THEN \E i \in 1..Len(resp.body) :
                        /\ OverspendFor(c) = {i}
                        /\ resp.body[i].level =
                              (IF 4 * actual <= 5 * planned THEN "warning" ELSE "danger")
                ELSE OverspendFor(c) = {}

\* rent is spent exactly 1.25 times its plan (a warning), food is spent
\* with a planned total of 0 (no alert)
C4_Witness ==
    /\ Answered("get_alerts")
    /\ \E i \in 1..Len(resp.body) :
          /\ OverspendFor("rent") = {i}
          /\ resp.body[i].level = "warning"
          /\ 4 * resp.body[i].message.n2 = 5 * resp.body[i].message.n1
    /\ "food" \in PlannedCategories
    /\ CategoryTotal(transaction, "food") > 0
    /\ OverspendFor("food") = {}

(***************************************************************************)
(* C5.                                                                     *)
(***************************************************************************)
\* C5: get_alerts answers with exactly one low_budget alert when income > 0
\* and 10 * remaining_actual <= income, of level warning when
\* remaining_actual > 0 and danger otherwise, and with none in every other
\* case; remaining_actual is income minus the month's transactions
C5_LowBudget ==
    Answered("get_alerts") =>
        LET income    == AnsweredPlan.income
            remaining == income - InMonthTotal(transaction, resp.month)
            low       == AlertsOfType("low_budget")
        IN  IF income > 0 /\ 10 * remaining <= income
            THEN /\ Len(low) = 1
                 /\ low[1].level = (IF remaining > 0 THEN "warning" ELSE "danger")
            ELSE low = <<>>

\* the ratio is exactly one tenth, with something left: a warning
C5_Witness ==
    /\ Answered("get_alerts")
    /\ AnsweredPlan.income = 10 * (AnsweredPlan.income - InMonthTotal(transaction, resp.month))
    /\ AnsweredPlan.income > 0
    /\ Len(AlertsOfType("low_budget")) = 1
    /\ AlertsOfType("low_budget")[1].level = "warning"

(***************************************************************************)
(* C6.  The plans of the metrics machine are for February 2024, of 29      *)
(* days.                                                                   *)
(***************************************************************************)
\* days from the reference date to the due date of a due_day in February
\* 2024
DaysUntilFeb2024(due_day, today) ==
    DayOf2024(Date(2024, 2, Min2(Max2(due_day, 1), 29))) - DayOf2024(today)

\* the due_soon alerts the rule asks for, as (name, days, level)
RECURSIVE DueSoonExpected(_, _)
DueSoonExpected(expenses, today) ==
    IF expenses = <<>> THEN <<>>
    ELSE LET p == expenses[1]
         IN  (IF p.due_day # None
                 /\ DaysUntilFeb2024(p.due_day[1], today) >= 0
                 /\ DaysUntilFeb2024(p.due_day[1], today) <= 5
              THEN <<[name  |-> p.name,
                      days  |-> DaysUntilFeb2024(p.due_day[1], today),
                      level |-> IF DaysUntilFeb2024(p.due_day[1], today) >= 3
                                THEN "info" ELSE "warning"]>>
              ELSE <<>>)
             \o DueSoonExpected(Tail(expenses), today)

\* C6: get_alerts answers without error and with exactly one due_soon alert
\* for each planned expense that has a due_day with 0 <= days_until <= 5,
\* of level info from 3 days on and warning below, days_until counted to
\* the due_day clamped to the month's last day; no other expense has one
C6_DueSoon ==
    (resp.op = "get_alerts" /\ resp.month = M_2024_02) =>
        /\ resp.status = 200
        /\ LET due == AlertsOfType("due_soon")
           IN  [i \in 1..Len(due) |-> [name  |-> due[i].message.subject,
                                       days  |-> due[i].message.n1,
                                       level |-> due[i].level]]
               = (IF AnsweredPlan.planned_expenses = <<>> THEN <<>>
                  ELSE DueSoonExpected(AnsweredPlan.planned_expenses, resp.today_alerts[1]))

\* on 29 February the expense due on the 31st is due today
C6_Witness ==
    /\ Answered("get_alerts")
    /\ resp.today_alerts = Some(Date(2024, 2, 29))
    /\ \E i \in 1..Len(resp.body) :
          /\ resp.body[i].type = "due_soon"
          /\ resp.body[i].message.subject = "Gym"
          /\ resp.body[i].message.n1 = 0
          /\ resp.body[i].level = "warning"

(***************************************************************************)
(* C7.                                                                     *)
(***************************************************************************)
\* days_left of February 2024 on the reference date of the response
DaysLeftFeb2024 ==
    LET t == DayOf2024(resp.today[1])
    IN  IF t < DayOf2024(Date(2024, 2, 1)) THEN 29
        ELSE IF t > DayOf2024(Date(2024, 2, 29)) THEN 0
        ELSE (DayOf2024(Date(2024, 2, 29)) - t) + 1

C7_DaysLeft ==
    /\ resp.body.metrics.days_left = DaysLeftFeb2024
    /\ resp.body.metrics.days_left >= 0
    /\ resp.body.metrics.days_left <= 29
    /\ resp.body.metrics.days_left = 0 => resp.body.metrics.daily_limit = FZero

\* C7 as stated: days_left follows the three cases and lies in 0..29,
\* daily_limit is 0 when days_left = 0, and otherwise
\* daily_limit * days_left = remaining_actual
C7_ExactProduct ==
    Answered("get_budget") =>
        /\ C7_DaysLeft
        /\ resp.body.metrics.days_left > 0 =>
              FMulInt(resp.body.metrics.daily_limit, resp.body.metrics.days_left)
                  = FromInt(resp.body.metrics.remaining_actual)

\* C7 amended: days_left follows the three cases and lies in 0..29,
\* daily_limit is 0 when days_left = 0, and otherwise daily_limit is the
\* rounded quotient, so that daily_limit * days_left is remaining_actual or
\* one of the two floats next to it, and remaining_actual itself when
\* days_left divides it
C7_RoundedProduct ==
    Answered("get_budget") =>
        /\ C7_DaysLeft
        /\ resp.body.metrics.days_left > 0 =>
              LET product   == FMulInt(resp.body.metrics.daily_limit,
                                       resp.body.metrics.days_left)
                  remaining == FromInt(resp.body.metrics.remaining_actual)
              IN  /\ product \in {MagDown(remaining), remaining, MagUp(remaining)}
                  /\ resp.body.metrics.remaining_actual % resp.body.metrics.days_left = 0
                        => product = remaining

\* 15 left for the 29 days of the month: (15 / 29) * 29 is the float next
\* above 15
C7_Witness ==
    /\ Answered("get_budget")
    /\ resp.body.metrics.days_left = 29
    /\ resp.body.metrics.remaining_actual = 15
    /\ FMulInt(resp.body.metrics.daily_limit, 29) = MagUp(FromInt(15))

(***************************************************************************)
(* C8.                                                                     *)
(***************************************************************************)
TypeRank(type) ==
    CASE type = "overspend" -> 1 [] type = "low_budget" -> 2 [] type = "due_soon" -> 3

\* s is t with some elements left out
IsSubsequence(s, t) ==
    \E f \in [1..Len(s) -> 1..Len(t)] :
        /\ \A i \in 1..Len(s) : s[i] = t[f[i]]
        /\ \A i \in 1..(Len(s) - 1) : f[i] < f[i + 1]

\* C8: the list get_alerts answers with is the overspend alerts, then at
\* most one low_budget alert, then the due_soon alerts in the order of the
\* plan's planned_expenses; every alert has one of the three types, one of
\* the three levels and the month of the request
C8_Order ==
    Answered("get_alerts") =>
        /\ \A i \in 1..Len(resp.body) :
              /\ resp.body[i].type \in {"overspend", "low_budget", "due_soon"}
              /\ resp.body[i].level \in {"info", "warning", "danger"}
              /\ resp.body[i].month = resp.month
              /\ \A j \in 1..(i - 1) :
                    TypeRank(resp.body[j].type) <= TypeRank(resp.body[i].type)
        /\ Len(AlertsOfType("low_budget")) <= 1
        /\ LET due == AlertsOfType("due_soon")
           IN  IsSubsequence([i \in 1..Len(due) |-> due[i].message.subject],
                             [i \in 1..Len(AnsweredPlan.planned_expenses) |->
                                 AnsweredPlan.planned_expenses[i].name])

\* all three kinds at once, two of them due_soon in the order of the plan
C8_Witness ==
    /\ Answered("get_alerts")
    /\ Len(resp.body) = 4
    /\ resp.body[1].type = "overspend"
    /\ resp.body[2].type = "low_budget"
    /\ resp.body[3].type = "due_soon" /\ resp.body[3].message.subject = "Gym"
    /\ resp.body[4].type = "due_soon" /\ resp.body[4].message.subject = "Rent"

(***************************************************************************)
(* C1.                                                                     *)
(***************************************************************************)
C1_Answers ==
    (db /\ resp.op \in ReadOps /\ DocsOf(resp.month) = {}) =>
        /\ resp.op = "get_budget" => resp.status = 404
        /\ resp.op = "month_summary" =>
              /\ resp.status = 200
              /\ resp.body.income = 0
              /\ resp.body.planned_total = 0
              /\ resp.body.actual_spent = 0
              /\ resp.body.remaining_actual = 0
              /\ resp.body.daily_limit = FZero
              /\ resp.body.weekly_limit = FZero
              /\ resp.body.planned_by_category = <<>>
              /\ resp.body.actual_by_category = <<>>
        /\ resp.op = "get_alerts" => (resp.status = 200 /\ resp.body = <<>>)

\* a step of get_budget, month_summary or get_alerts
ReadStep == req' # req \/ resp'.op \in ReadOps

\* C1: with the database there and no plan stored for the month, get_budget
\* answers 404, month_summary answers normally with every metric 0 and both
\* category maps empty, get_alerts answers with the empty list; and no step
\* of the three handlers changes a stored plan or transaction
C1_NoPlan ==
    /\ []C1_Answers
    /\ [][ReadStep => UNCHANGED <<budgetmonth, transaction>>]_vars

\* month_summary has answered for February 2024, which has transactions
\* and no plan
C1_Witness ==
    /\ db
    /\ Answered("month_summary")
    /\ resp.month = M_2024_02
    /\ DocsOf(M_2024_02) = {}
    /\ InMonthTotal(added, M_2024_02) > 0

(***************************************************************************)
(* C2.  lastUpsert[m] is the body of the last upsert_budget of month m     *)
(* that was accepted.                                                      *)
(***************************************************************************)
C2_Stored ==
    /\ \A i \in 1..Len(budgetmonth) : budgetmonth[i].month \in StoreMonths
    /\ \A m \in StoreMonths :
          IF lastUpsert[m] = None THEN DocsOf(m) = {}
          ELSE \E i \in 1..Len(budgetmonth) :
                  /\ DocsOf(m) = {i}
                  /\ budgetmonth[i].income = lastUpsert[m][1].income
                  /\ budgetmonth[i].notes = lastUpsert[m][1].notes
                  /\ budgetmonth[i].planned_expenses = lastUpsert[m][1].planned_expenses

\* an accepted upsert_budget whose body is the one last accepted for the
\* month
RepeatedUpsert ==
    /\ resp = NoResp
    /\ resp'.op = "upsert_budget"
    /\ resp'.status = 200
    /\ lastUpsert[resp'.month] = lastUpsert'[resp'.month]

\* C2: the collection holds at most one plan for each month, with the
\* income, notes and planned_expenses of the last accepted upsert of that
\* month and none where there was no upsert; an upsert of the plan that is
\* already stored leaves the collection as it is
C2_Upsert ==
    /\ []C2_Stored
    /\ [][RepeatedUpsert => budgetmonth' = budgetmonth]_vars

\* February 2024 was stored before April 2023 and has just been upserted
\* again, with the plan that has neither notes nor expenses
C2_Witness ==
    /\ Answered("upsert_budget")
    /\ resp.month = M_2024_02
    /\ Len(budgetmonth) = 2
    /\ budgetmonth[1] = [_id |-> 1, month |-> M_2024_02, income |-> 0,
                         notes |-> None, planned_expenses |-> <<>>]
    /\ budgetmonth[2].month = M_2023_04
    /\ resp.body.budget = Some(budgetmonth[1])

(***************************************************************************)
(* C3.                                                                     *)
(***************************************************************************)
RECURSIVE SumValues(_)
SumValues(d) == IF d = <<>> THEN 0 ELSE d[1].val + SumValues(Tail(d))

\* C3: in every result of get_budget the values of actual_by_category sum
\* to actual_spent, whatever add_transaction requests run meanwhile
C3_Partition ==
    Answered("get_budget") =>
        SumValues(resp.body.metrics.actual_by_category) = resp.body.metrics.actual_spent

(***************************************************************************)
(* C9.                                                                     *)
(***************************************************************************)
\* not YYYY-MM with a month part in 01..12
Malformed(month) == ~(MonthPattern(month) /\ valid_month(month))

ClientError == resp.status >= 400 /\ resp.status <= 499

\* C9: with the database there, a request whose month parameter is
\* malformed is answered with a client error, and upsert_budget is accepted
\* only with a body of the month of the path
C9_ClientError ==
    /\ (db /\ resp.op \in ReadOps /\ Malformed(resp.month)) => ClientError
    /\ (db /\ resp.op = "list_transactions" /\ resp.month # None
           /\ Malformed(resp.month[1])) => ClientError
    /\ Answered("upsert_budget") => lastUpsert[resp.month] # None
                                    /\ lastUpsert[resp.month][1].month = resp.month

(***************************************************************************)
(* C10.  added is the sequence of the bodies add_transaction accepted.     *)
(***************************************************************************)
C10_Stored ==
    /\ Len(transaction) = Len(added)
    /\ \A i \in 1..Len(added) :
          /\ transaction[i].amount = added[i].amount
          /\ transaction[i].category = added[i].category
          /\ transaction[i].tx_date = added[i].tx_date

C10_Step ==
    /\ transaction' # transaction =>
          /\ resp = NoResp /\ resp'.op = "add_transaction" /\ resp'.status = 200
          /\ Len(transaction') = Len(transaction) + 1
          /\ SubSeq(transaction', 1, Len(transaction)) = transaction
          /\ budgetmonth' = budgetmonth
    /\ (resp = NoResp /\ resp'.op = "add_transaction" /\ resp'.status = 200) =>
          Len(transaction') = Len(transaction) + 1
    /\ (req.pc = "actual_total" /\ req'.pc = "by_category") =>
          req'.actual_total = InMonthTotal(added, req.month)
    /\ (req.pc = "by_category" /\ resp'.op = "get_budget") =>
          resp'.body.metrics.actual_spent = req.actual_total

\* C10: the collection holds the accepted transactions, one document each
\* in the order they were added; only an accepted add_transaction changes
\* it, by one document at its end and without touching a plan; and the
\* actual_spent of get_budget is the total of the transactions added so
\* far, when it queries them, that are dated in the month
C10_AppendOnly ==
    /\ []C10_Stored
    /\ [][C10_Step]_vars

\* get_budget reports 5 for February 2024 after its last day and the first
\* of March were added
C10_Witness ==
    /\ Answered("get_budget")
    /\ resp.month = M_2024_02
    /\ resp.body.metrics.actual_spent = 5
    /\ Len(added) = 2
    /\ added[1].tx_date = Date(2024, 2, 29)
    /\ added[2].tx_date = Date(2024, 3, 1)

=============================================================================
